---- MODULE Spec2Model ----
(***************************************************************************)
(* js-caching (src/cache.js): a key/value cache over window.localStorage,  *)
(* window.sessionStorage or a page-lifetime JavaScript array, with one     *)
(* global expiration horizon kept in the store itself.                     *)
(*                                                                         *)
(* The module is an IIFE: evaluating the script builds the closure state   *)
(* (_storageType, _storage), attaches x.set / x.get / x.reset and runs     *)
(* _init() once, before the global `cache` is bound to the returned        *)
(* object.  One page load is one evaluation of the script.                 *)
(***************************************************************************)
EXTENDS Integers, Sequences, FiniteSets, TLC

\* ----------------------------------------------------------------- bounds
\* Number of clock advances explored.
MaxTicks == 2
\* The short clock advance, in milliseconds.
ShortStep == 500

\* ------------------------------------------------------ program constants
_QUOTA_EXCEEDED == 22
_cacheTimeout == 900

\* ------------------------------------------------------ JavaScript values
\* A JavaScript value is a record [kind, s, n]; s and n carry the payload.
Undefined == [kind |-> "undefined", s |-> "", n |-> 0]
Null == [kind |-> "null", s |-> "", n |-> 0]
NaN == [kind |-> "NaN", s |-> "", n |-> 0]
False == [kind |-> "boolean", s |-> "false", n |-> 0]
True == [kind |-> "boolean", s |-> "true", n |-> 1]
Num(i) == [kind |-> "number", s |-> "", n |-> i]
Str(t) == [kind |-> "string", s |-> t, n |-> 0]
\* A plain structured object, {a: 1}.
Obj == [kind |-> "object", s |-> "{a:1}", n |-> 0]
\* new Date(ms)
DateObj(ms) == [kind |-> "Date", s |-> "", n |-> ms]
\* A string holding the ISO form of the instant ms (Date.prototype.toJSON).
IsoStr(ms) == [kind |-> "string", s |-> "iso", n |-> ms]
\* A built-in function object, as found on Array.prototype.
Fn == [kind |-> "function", s |-> "native", n |-> 0]

\* typeof v
TypeOf(v) ==
  CASE v.kind = "undefined" -> "undefined"
    [] v.kind = "NaN" -> "number"
    [] v.kind = "number" -> "number"
    [] v.kind = "boolean" -> "boolean"
    [] v.kind = "string" -> "string"
    [] v.kind = "function" -> "function"
    [] OTHER -> "object"

\* ToBoolean(v), as used by if(v) and !v
Truthy(v) ==
  CASE v.kind = "undefined" -> FALSE
    [] v.kind = "null" -> FALSE
    [] v.kind = "NaN" -> FALSE
    [] v.kind = "boolean" -> v = True
    [] v.kind = "number" -> v.n # 0
    [] v.kind = "string" -> ~(v.s = "" /\ v.n = 0)
    [] OTHER -> TRUE

\* ToNumber(v) for the operands of `-`; NaN when v is not numeric.
ToNumber(v) ==
  CASE v.kind = "number" -> v
    [] v.kind = "boolean" -> Num(v.n)
    [] v.kind = "null" -> Num(0)
    [] v.kind = "Date" -> Num(v.n)
    [] OTHER -> NaN

\* ------------------------------------------------------------------ JSON
\* The value part of JSON.stringify followed by JSON.parse: NaN is written
\* as null and a Date as its ISO string; strings, finite numbers, booleans,
\* null and plain objects come back as they were.
JSONValue(v) ==
  CASE v.kind = "NaN" -> Null
    [] v.kind = "Date" -> IsoStr(v.n)
    [] v.kind = "function" -> Undefined
    [] OTHER -> v

\* JSON.stringify(data) for data = {type: ..., value: ...}: the text is
\* kept as the document it denotes.
JSONstringify(data) == [type |-> data.type, value |-> JSONValue(data.value)]

\* JSON.parse(text) for a text written by JSONstringify.
JSONparse(text) == [type |-> text.type, value |-> text.value]

\* A text that is not JSON, as other code sharing the store may leave under
\* a key; JSON.parse throws SyntaxError on it.
Malformed == [type |-> "not JSON", value |-> Undefined]
IsJSON(text) == text # Malformed

\* --------------------------------------------------------------- storage
\* The keys the application uses: an ordinary key and a key that names a
\* member of Array.prototype; and the two keys _checkExpiration reserves.
UserKeys == {"k", "constructor"}
ReservedKeys == {"_cacheTimeout", "_cacheTimeoutString"}
Keys == UserKeys \cup ReservedKeys

\* The values handed to set: a string, a finite number, a non-finite
\* number, a boolean and a structured object.
Values == {Str("a"), Num(7), NaN, False, Obj}

\* A store with no entries (after clear(), or a new []).
Empty == [k \in {} |-> JSONstringify([type |-> "undefined", value |-> Undefined])]

\* What a storage write attempt does: it returns, or throws an exception
\* carrying a numeric code.
NoThrow == [threw |-> FALSE, code |-> 0]
QuotaExceeded == [threw |-> TRUE, code |-> _QUOTA_EXCEEDED]
OtherFailure == [threw |-> TRUE, code |-> _QUOTA_EXCEEDED + 1]
Outcomes == {NoThrow, QuotaExceeded, OtherFailure}

\* What a read of a store hands to get: a stored text, null (Storage.getItem
\* on a missing key), undefined (a missing array property) or a function.
NoText == JSONstringify([type |-> "undefined", value |-> Undefined])
DataText(t) == [kind |-> "string", text |-> t]
DataNull == [kind |-> "null", text |-> NoText]
DataUndefined == [kind |-> "undefined", text |-> NoText]
DataFn == [kind |-> "function", text |-> NoText]

\* Storage.getItem(key)
getItem(store, key) ==
  IF key \in DOMAIN store THEN DataText(store[key]) ELSE DataNull

\* Storage.setItem(key, text), when it does not throw
setItem(store, key, text) == (key :> text) @@ store

\* _storage[key] on the array _storage: an own property, else whatever
\* Array.prototype holds under that name.
ArrayGet(arr, key) ==
  IF key \in DOMAIN arr.own THEN DataText(arr.own[key])
  ELSE IF key = "constructor" THEN DataFn
  ELSE DataUndefined

\* _storage[key] = json
ArrayPut(arr, key, text) == [arr EXCEPT !.own = (key :> text) @@ arr.own]

\* var _storage = false
StorageFalse == [alloc |-> FALSE, own |-> Empty]
\* _storage = []
StorageNew == [alloc |-> TRUE, own |-> Empty]

\* ------------------------------------------------------------ the closure
\* A machine m is the closure state and the two platform stores, plus
\* counters of what the running operation has done so far:
\*   type, storage     _storageType, _storage
\*   ls, ss            window.localStorage, window.sessionStorage
\*   calls             platform store calls (getItem, setItem, clear)
\*   writes            setItem attempts
\*   resets            calls of x.reset
\* Every operation starts with the three counters at 0.
\* x.reset with the localStorage case clearing the other platform store.
x_reset_wrong_store(m) ==
  LET c == [m EXCEPT !.resets = @ + 1] IN
  CASE m.type = "localStorage" -> [c EXCEPT !.ss = Empty, !.calls = @ + 1]
    [] m.type = "sessionStorage" -> [c EXCEPT !.ls = Empty, !.calls = @ + 1]
    [] OTHER -> [c EXCEPT !.storage = StorageNew]

\* x.reset removing the application's entries and keeping the expiration
\* bookkeeping.
x_reset_keeps_reserved(m) ==
  LET c == [m EXCEPT !.resets = @ + 1]
      kept(store) == [k \in DOMAIN store \cap ReservedKeys |-> store[k]]
  IN  CASE m.type = "localStorage" ->
             [c EXCEPT !.ls = kept(m.ls), !.calls = @ + 1]
        [] m.type = "sessionStorage" ->
             [c EXCEPT !.ss = kept(m.ss), !.calls = @ + 1]
        [] OTHER -> [c EXCEPT !.storage = StorageNew]

\* return true, the last statement of x.reset
x_reset_returns == True

\* x.reset
x_reset(m) ==
  LET c == [m EXCEPT !.resets = @ + 1] IN
  CASE m.type = "localStorage" -> [c EXCEPT !.ls = Empty, !.calls = @ + 1]
    [] m.type = "sessionStorage" -> [c EXCEPT !.ss = Empty, !.calls = @ + 1]
    [] OTHER -> [c EXCEPT !.storage = StorageNew]

\* The data x.get reads for key, by storage type.
x_get_data(m, key) ==
  CASE m.type = "localStorage" -> getItem(m.ls, key)
    [] m.type = "sessionStorage" -> getItem(m.ss, key)
    [] OTHER -> ArrayGet(m.storage, key)

\* x.get answering false for every stored value that is falsy.
x_get_falsy(m, key) ==
  LET data == x_get_data(m, key)
      m1 == IF m.type \in {"localStorage", "sessionStorage"}
            THEN [m EXCEPT !.calls = @ + 1] ELSE m
  IN  IF data.kind \in {"null", "undefined"}
      THEN [m |-> m1, threw |-> FALSE, value |-> False]
      ELSE IF data.kind = "string" /\ IsJSON(data.text)
      THEN [m |-> m1, threw |-> FALSE,
            value |-> IF Truthy(JSONparse(data.text).value)
                      THEN JSONparse(data.text).value ELSE False]
      ELSE [m |-> m1, threw |-> TRUE, value |-> Undefined]

\* x.get: [m, threw, value]
x_get(m, key) ==
  LET data == x_get_data(m, key)
      m1 == IF m.type \in {"localStorage", "sessionStorage"}
            THEN [m EXCEPT !.calls = @ + 1] ELSE m
  IN  IF data.kind \in {"null", "undefined"}
      THEN [m |-> m1, threw |-> FALSE, value |-> False]
      ELSE IF data.kind = "string" /\ IsJSON(data.text)
      THEN [m |-> m1, threw |-> FALSE, value |-> JSONparse(data.text).value]
      \* JSON.parse of a text that is not JSON, or of a function's source
      \* text: SyntaxError
      ELSE [m |-> m1, threw |-> TRUE, value |-> Undefined]

\* x.set's try/catch retrying after a quota failure without the reset.
x_set_storage_no_reset(m, f, key, json, o1, o2, cacheBound) ==
  LET put(mm) == IF f = "ls" THEN [mm EXCEPT !.ls = setItem(mm.ls, key, json)]
                 ELSE [mm EXCEPT !.ss = setItem(mm.ss, key, json)]
      m1 == [m EXCEPT !.calls = @ + 1, !.writes = @ + 1]
      m3 == [m1 EXCEPT !.calls = @ + 1, !.writes = @ + 1, !.resets = @ + 1]
  IN  IF ~o1.threw THEN [m |-> put(m1), threw |-> FALSE]
      ELSE IF o1.code = _QUOTA_EXCEEDED
      THEN IF ~cacheBound THEN [m |-> m1, threw |-> TRUE]
           ELSE IF ~o2.threw THEN [m |-> put(m3), threw |-> FALSE]
           ELSE [m |-> m3, threw |-> TRUE]
      ELSE [m |-> m1, threw |-> FALSE]

\* x.set's try/catch with the retry itself wrapped in a try/catch that
\* swallows its failure.
x_set_storage_quiet_retry(m, f, key, json, o1, o2, cacheBound) ==
  LET put(mm) == IF f = "ls" THEN [mm EXCEPT !.ls = setItem(mm.ls, key, json)]
                 ELSE [mm EXCEPT !.ss = setItem(mm.ss, key, json)]
      m1 == [m EXCEPT !.calls = @ + 1, !.writes = @ + 1]
  IN  IF ~o1.threw THEN [m |-> put(m1), threw |-> FALSE]
      ELSE IF o1.code = _QUOTA_EXCEEDED
      THEN IF ~cacheBound THEN [m |-> m1, threw |-> TRUE]
           ELSE LET m2 == x_reset(m1)
                    m3 == [m2 EXCEPT !.calls = @ + 1, !.writes = @ + 1]
                IN  IF ~o2.threw THEN [m |-> put(m3), threw |-> FALSE]
                    ELSE [m |-> m3, threw |-> FALSE]
      ELSE [m |-> m1, threw |-> FALSE]

\* x.set's try/catch answering a quota failure by switching the cache to
\* the in-memory array.
x_set_storage_fallback_js(m, f, key, json, o1, o2, cacheBound) ==
  LET put(mm) == IF f = "ls" THEN [mm EXCEPT !.ls = setItem(mm.ls, key, json)]
                 ELSE [mm EXCEPT !.ss = setItem(mm.ss, key, json)]
      m1 == [m EXCEPT !.calls = @ + 1, !.writes = @ + 1]
  IN  IF ~o1.threw THEN [m |-> put(m1), threw |-> FALSE]
      ELSE IF o1.code = _QUOTA_EXCEEDED
      THEN [m |-> [m1 EXCEPT !.type = "js", !.resets = @ + 1,
                             !.storage = ArrayPut(StorageNew, key, json)],
            threw |-> FALSE]
      ELSE [m |-> m1, threw |-> FALSE]

\* x.set's try/catch writing the entry into an emptied store.
x_set_storage_clear_first(m, f, key, json, o1, o2, cacheBound) ==
  LET put(mm) == IF f = "ls" THEN [mm EXCEPT !.ls = setItem(Empty, key, json)]
                 ELSE [mm EXCEPT !.ss = setItem(Empty, key, json)]
      m1 == [m EXCEPT !.calls = @ + 1, !.writes = @ + 1]
  IN  IF ~o1.threw THEN [m |-> put(m1), threw |-> FALSE]
      ELSE IF o1.code = _QUOTA_EXCEEDED
      THEN IF ~cacheBound THEN [m |-> m1, threw |-> TRUE]
           ELSE LET m2 == x_reset(m1)
                    m3 == [m2 EXCEPT !.calls = @ + 1, !.writes = @ + 1]
                IN  IF ~o2.threw THEN [m |-> put(m3), threw |-> FALSE]
                    ELSE [m |-> m3, threw |-> TRUE]
      ELSE [m |-> m1, threw |-> FALSE]

\* The try/catch around Storage.setItem in x.set, on the store named by
\* field f ("ls" or "ss"): [m, threw]
x_set_storage(m, f, key, json, o1, o2, cacheBound) ==
  LET put(mm) == IF f = "ls" THEN [mm EXCEPT !.ls = setItem(mm.ls, key, json)]
                 ELSE [mm EXCEPT !.ss = setItem(mm.ss, key, json)]
      m1 == [m EXCEPT !.calls = @ + 1, !.writes = @ + 1]
  IN  IF ~o1.threw
      THEN [m |-> put(m1), threw |-> FALSE]
      ELSE IF o1.code = _QUOTA_EXCEEDED
      THEN IF ~cacheBound
           \* cache.reset() with the global `cache` still undefined: TypeError
           THEN [m |-> m1, threw |-> TRUE]
           ELSE LET m2 == x_reset(m1)
                    m3 == [m2 EXCEPT !.calls = @ + 1, !.writes = @ + 1]
                IN  IF ~o2.threw
                    THEN [m |-> put(m3), threw |-> FALSE]
                    ELSE [m |-> m3, threw |-> TRUE]
      \* any other e.code: the catch block ends without rethrowing
      ELSE [m |-> m1, threw |-> FALSE]

\* x.set: [m, threw]
x_set(m, key, value, o1, o2, cacheBound) ==
  LET data == [type |-> TypeOf(value), value |-> value]
      json == JSONstringify(data)
  IN  CASE m.type = "localStorage" ->
             x_set_storage(m, "ls", key, json, o1, o2, cacheBound)
        [] m.type = "sessionStorage" ->
             x_set_storage(m, "ss", key, json, o1, o2, cacheBound)
        [] OTHER ->
             [m |-> [m EXCEPT !.storage = ArrayPut(m.storage, key, json)],
              threw |-> FALSE]

\* The comparison with the elapsed time left in milliseconds and the
\* timeout converted to milliseconds twice.
TimeoutMet_ms(now, exp) ==
  LET e == ToNumber(exp)
  IN  e.kind = "number" /\ (now - e.n) > _cacheTimeout * 1000 * 1000

\* timeElapsed > _cacheTimeout with timeElapsed = (now - exp) / 1000, a
\* division of reals: it holds exactly when now - exp > _cacheTimeout * 1000.
\* A NaN operand makes the comparison false.
TimeoutMet(now, exp) ==
  LET e == ToNumber(exp)
  IN  e.kind = "number" /\ (now - e.n) > _cacheTimeout * 1000

\* _checkExpiration, run at time `now` while the global `cache` is not yet
\* bound; o1 and o2 are what the store does with the two bookkeeping
\* writes: [m, threw]
_checkExpiration(m, now, o1, o2) ==
  LET g == x_get(m, "_cacheTimeout")
  IN  IF g.threw THEN [m |-> g.m, threw |-> TRUE]
      ELSE IF ~Truthy(g.value)
      THEN LET exp == Num(now + _cacheTimeout)
               s1 == x_set(g.m, "_cacheTimeout", exp, o1, NoThrow, FALSE)
               s2 == x_set(s1.m, "_cacheTimeoutString", DateObj(exp.n),
                           o2, NoThrow, FALSE)
           IN  IF s1.threw THEN s1
               ELSE IF s2.threw THEN s2
               ELSE IF TimeoutMet(now, exp)
               THEN [m |-> x_reset(s2.m), threw |-> FALSE]
               ELSE s2
      ELSE IF TimeoutMet(now, g.value)
      THEN [m |-> x_reset(g.m), threw |-> FALSE]
      ELSE [m |-> g.m, threw |-> FALSE]

\* _initStorage: [m, threw]
_initStorage(m, now, o1, o2) ==
  CASE m.type \in {"localStorage", "sessionStorage"} ->
         _checkExpiration(m, now, o1, o2)
    [] OTHER -> [m |-> [m EXCEPT !.storage = StorageNew], threw |-> FALSE]

\* _init preferring the session store.
_init_type_prefers_session(hasLocal, hasSession) ==
  LET preferred == "sessionStorage"
  IN  CASE preferred = "localStorage" ->
             IF ~hasLocal THEN "js" ELSE preferred
        [] preferred = "sessionStorage" ->
             IF ~hasSession THEN "js" ELSE preferred
        [] OTHER -> preferred

\* _init without the availability probe.
_init_type_no_probe(hasLocal, hasSession) == "localStorage"

\* The storage type _init settles on, given whether window.localStorage and
\* window.sessionStorage exist.
_init_type(hasLocal, hasSession) ==
  LET preferred == "localStorage"
  IN  CASE preferred = "localStorage" ->
             IF ~hasLocal THEN "js" ELSE preferred
        [] preferred = "sessionStorage" ->
             IF ~hasSession THEN "js" ELSE preferred
        [] OTHER -> preferred

\* _init: [m, threw]
_init(m, hasLocal, hasSession, now, o1, o2) ==
  _initStorage([m EXCEPT !.type = _init_type(hasLocal, hasSession)],
               now, o1, o2)

\* ----------------------------------------------------------------- state
VARIABLES
  hasLocalStorage,   \* whether window.localStorage exists in this browser
  localStorage,      \* window.localStorage: key -> text
  sessionStorage,    \* window.sessionStorage: key -> text
  _storageType,      \* closure variable
  _storage,          \* closure variable
  cache,             \* the global `cache`: "undefined" or "object"
  clock,             \* what new Date().getTime() returns, in milliseconds
  ticks,             \* clock advances so far
  written,           \* keys handed to set since the store was last cleared
  last               \* the last operation: its arguments and what it did

vars == <<hasLocalStorage, localStorage, sessionStorage, _storageType,
          _storage, cache, clock, ticks, written, last>>

\* The entries of the store the machine m is using.
ActiveStoreOf(m) ==
  CASE m.type = "localStorage" -> m.ls
    [] m.type = "sessionStorage" -> m.ss
    [] OTHER -> m.storage.own

\* The machine the next operation starts from.
M == [type |-> _storageType, storage |-> _storage, ls |-> localStorage,
      ss |-> sessionStorage, calls |-> 0, writes |-> 0, resets |-> 0]

\* The record kept of an operation; afterReset tells that the operation
\* before it reset the cache.
Op(name, key, ret, threw, m, o1) ==
  [op |-> name, key |-> key, ret |-> ret, threw |-> threw,
   calls |-> m.calls, writes |-> m.writes, resets |-> m.resets,
   first |-> IF m.writes > 0 THEN o1 ELSE NoThrow,
   afterReset |-> last.resets > 0]

Commit(m) ==
  /\ localStorage' = m.ls
  /\ sessionStorage' = m.ss
  /\ _storageType' = m.type
  /\ _storage' = m.storage

\* The browser before the script is first evaluated: empty stores, the
\* closure variables as their declarations leave them.
Init ==
  /\ hasLocalStorage \in BOOLEAN
  /\ localStorage = Empty
  /\ sessionStorage = Empty
  /\ _storageType = "localStorage"
  /\ _storage = StorageFalse
  /\ cache = "undefined"
  /\ clock = 0
  /\ ticks = 0
  /\ written = {}
  /\ last = [op |-> "none", key |-> "", ret |-> Undefined,
             threw |-> FALSE, calls |-> 0, writes |-> 0, resets |-> 0,
             first |-> NoThrow, afterReset |-> FALSE]

\* Keys written by an operation that went from machine a to machine b.
WrittenAfter(w, m, ks) == IF m.resets > 0 THEN {} ELSE w \cup ks

\* The script is evaluated (a page load): new closure variables, then
\* _init(); `cache` is bound only if _init returns.
Load(o1, o2) ==
  LET m0 == [M EXCEPT !.type = "localStorage", !.storage = StorageFalse]
      r == _init(m0, hasLocalStorage, TRUE, clock, o1, o2)
  IN  /\ Commit(r.m)
      /\ cache' = IF r.threw THEN "undefined" ELSE "object"
      /\ written' = IF r.m.type = "js" \/ r.m.resets > 0 THEN {}
                    ELSE written
      /\ last' = Op("load", "", Undefined, r.threw, r.m, o1)
      /\ UNCHANGED <<hasLocalStorage, clock, ticks>>

\* cache.get(key) preceded by the expiration check of _checkExpiration.
Get_expiring(key) ==
  LET expired == /\ "_cacheTimeout" \in DOMAIN ActiveStoreOf(M)
                 /\ TimeoutMet(clock, JSONparse(ActiveStoreOf(M)["_cacheTimeout"]).value)
      r == x_get(IF expired THEN x_reset(M) ELSE M, key)
  IN  /\ cache = "object"
      /\ Commit(r.m)
      /\ last' = Op("get", key, r.value, r.threw, r.m, NoThrow)
      /\ UNCHANGED <<hasLocalStorage, cache, clock, ticks, written>>

\* cache.get(key)
Get(key) ==
  LET r == x_get(M, key)
  IN  /\ cache = "object"
      /\ Commit(r.m)
      /\ last' = Op("get", key, r.value, r.threw, r.m, NoThrow)
      /\ UNCHANGED <<hasLocalStorage, cache, clock, ticks, written>>

\* cache.set(key, value); o1 and o2 are what the store does with the first
\* and the second write attempt.
Set(key, value, o1, o2) ==
  LET r == x_set(M, key, value, o1, o2, cache = "object")
  IN  /\ cache = "object"
      /\ Commit(r.m)
      /\ written' = WrittenAfter(written, r.m, {}) \cup {key}
      /\ last' = Op("set", key, Undefined, r.threw, r.m, o1)
      /\ UNCHANGED <<hasLocalStorage, cache, clock, ticks>>

\* cache.reset()
Reset ==
  LET m == x_reset(M)
  IN  /\ cache = "object"
      /\ Commit(m)
      /\ written' = {}
      /\ last' = Op("reset", "", x_reset_returns, FALSE, m, NoThrow)
      /\ UNCHANGED <<hasLocalStorage, cache, clock, ticks>>

\* Other code of the page, sharing window.localStorage, stores a text of
\* its own under a key the application uses.
ForeignWrite(key) ==
  /\ hasLocalStorage
  /\ localStorage' = setItem(localStorage, key, Malformed)
  /\ written' = written \cup {key}
  /\ last' = [op |-> "foreign", key |-> key, ret |-> Undefined,
              threw |-> FALSE, calls |-> 0, writes |-> 0, resets |-> 0,
              first |-> NoThrow, afterReset |-> FALSE]
  /\ UNCHANGED <<hasLocalStorage, sessionStorage, _storageType, _storage,
                 cache, clock, ticks>>

\* Time passes; the record of the last operation is closed, so that an
\* operation on record ran at the time the clock shows.
Tick(step) ==
  /\ ticks < MaxTicks
  /\ ticks' = ticks + 1
  /\ clock' = clock + step
  /\ last' = [op |-> "tick", key |-> "", ret |-> Undefined,
              threw |-> FALSE, calls |-> 0, writes |-> 0, resets |-> 0,
              first |-> NoThrow, afterReset |-> FALSE]
  /\ UNCHANGED <<hasLocalStorage, localStorage, sessionStorage, _storageType,
                 _storage, cache, written>>

Steps == {ShortStep, _cacheTimeout * 1000}

\* The keys the application is run with.  Storage.getItem and setItem treat
\* every key alike, so one key is exercised on them; on the array a key
\* that names an inherited property is exercised as well.
AppKeys == IF hasLocalStorage THEN {"k"} ELSE UserKeys

\* What the store does with the two write attempts of one set; the second
\* is made only after a quota failure of the first.
SetOutcomes ==
  {<<NoThrow, NoThrow>>, <<OtherFailure, NoThrow>>} \cup
  {<<QuotaExceeded, o2>> : o2 \in Outcomes}

Next ==
  \/ \E o1, o2 \in Outcomes : Load(o1, o2)
  \/ \E key \in AppKeys : Get(key)
  \/ \E key \in AppKeys, value \in Values, o \in SetOutcomes :
       Set(key, value, o[1], o[2])
  \/ Reset
  \/ \E key \in AppKeys : ForeignWrite(key)
  \/ \E step \in Steps : Tick(step)

Spec == Init /\ [][Next]_vars

\* ---------------------------------------------------------------- claims
\* The entries of the store the machine m is using.
ActiveStore(m) == ActiveStoreOf(m)

\* The text set stores for value.
Wrapper(value) == JSONstringify([type |-> TypeOf(value), value |-> value])

\* C1: a set(k, v) that returns normally, followed immediately by get(k),
\* gives back a value equal to v, for every key and value and on every
\* backend.
C1_RoundTrip ==
  [][\A key \in UserKeys, value \in Values, o \in SetOutcomes :
       (Set(key, value, o[1], o[2]) /\ ~last'.threw)
         => (~x_get(M', key).threw /\ x_get(M', key).value = value)]_vars

\* C2: get(k) returns false, and does not throw, for every key k that has
\* not been handed to set since the store was created or last cleared.
C2_Absence ==
  (last.op = "get" /\ last.key \notin written)
    => (~last.threw /\ last.ret = False)

\* C3: wherever the cache object exists, reset returns true and leaves the
\* active store with no entry at all, and a second reset right after it
\* does the same.
C3_ResetTotalIdempotent ==
  /\ cache = "object" =>
       /\ DOMAIN ActiveStore(x_reset(M)) = {}
       /\ DOMAIN ActiveStore(x_reset(x_reset(M))) = {}
       /\ ActiveStore(x_reset(x_reset(M))) = ActiveStore(x_reset(M))
       /\ x_reset(M).type = _storageType
  /\ last.op = "reset" =>
       /\ ~last.threw
       /\ last.ret = True
       /\ DOMAIN ActiveStore(M) = {}

\* A reset has just cleared localStorage.
C3_Witness ==
  /\ last.op = "reset"
  /\ hasLocalStorage
  /\ last.calls = 1
  /\ last.resets = 1
  /\ localStorage = Empty

\* C4: when the store rejects the first write of set(k, v) with the quota
\* code and accepts the retry, set returns with the store holding exactly
\* one entry, the wrapper of v under k; the reserved keys are gone.
C4_QuotaRecovery ==
  [][\A key \in UserKeys, value \in Values :
       (_storageType # "js" /\ Set(key, value, QuotaExceeded, NoThrow))
         => /\ ~last'.threw
            /\ ActiveStore(M') = (key :> Wrapper(value))
            /\ \A r \in ReservedKeys : r \notin DOMAIN ActiveStore(M')]_vars

\* A set has returned after a quota failure, a reset and an accepted retry.
C4_Witness ==
  /\ last.op = "set"
  /\ last.first = QuotaExceeded
  /\ ~last.threw
  /\ last.resets = 1
  /\ last.writes = 2
  /\ DOMAIN localStorage = {last.key}

\* C5: a write failure that is not a quota failure propagates out of set:
\* set does not return normally when the write did not take place.
C5_OtherFailurePropagates ==
  (last.op = "set" /\ _storageType # "js" /\ last.first = OtherFailure)
    => last.threw

\* C6: one call of set makes at most two write attempts; it makes the
\* second only after the first failed with the quota code and the cache was
\* reset; a failure of the second attempt propagates to the caller, with no
\* third attempt.
C6_AtMostOneRetry ==
  [][\A key \in UserKeys, value \in Values, o \in SetOutcomes :
       Set(key, value, o[1], o[2])
         => /\ last'.writes <= 2
            /\ last'.writes = 2 => (o[1] = QuotaExceeded /\ last'.resets = 1)
            /\ (last'.writes = 2 /\ o[2].threw)
                 => (last'.threw /\ DOMAIN ActiveStore(M') = {})
            /\ (_storageType # "js" /\ o[1] = QuotaExceeded)
                 => last'.writes = 2]_vars

\* A set whose retry failed as well: two attempts, and the failure reached
\* the caller.
C6_Witness ==
  /\ last.op = "set"
  /\ last.first = QuotaExceeded
  /\ last.writes = 2
  /\ last.resets = 1
  /\ last.threw

\* C7: when window.localStorage does not exist, init selects the in-memory
\* backend, and no get, set or reset after it calls or changes a platform
\* store.  (`cache` is bound once an init has returned.)
C7_BackendFallback ==
  (~hasLocalStorage /\ cache = "object")
    => /\ _storageType = "js"
       /\ last.calls = 0
       /\ localStorage = Empty
       /\ sessionStorage = Empty

\* Without window.localStorage, a set has stored its entry in the array.
C7_Witness ==
  /\ ~hasLocalStorage
  /\ last.op = "set"
  /\ "k" \in DOMAIN _storage.own
  /\ _storage.alloc

\* The horizon recorded under _cacheTimeout, when a number is stored there.
Horizon(store) == JSONparse(store["_cacheTimeout"]).value

\* C8: an init on a store that holds no _cacheTimeout entry, whose write the
\* store accepts at once or rejects with the quota code, leaves
\* _cacheTimeout holding now + timeout; an init that runs before the
\* timeout has elapsed since the horizon was recorded leaves the stored
\* _cacheTimeout as it was.
C8_HorizonEstablished ==
  [][\A o1 \in {NoThrow, QuotaExceeded}, o2 \in Outcomes :
       (hasLocalStorage /\ Load(o1, o2))
         => IF "_cacheTimeout" \notin DOMAIN localStorage
            THEN /\ "_cacheTimeout" \in DOMAIN localStorage'
                 /\ localStorage'["_cacheTimeout"] = Wrapper(Num(clock + _cacheTimeout))
            ELSE (clock - (Horizon(localStorage).n - _cacheTimeout)
                    <= _cacheTimeout * 1000)
                   => /\ "_cacheTimeout" \in DOMAIN localStorage'
                      /\ localStorage'["_cacheTimeout"] = localStorage["_cacheTimeout"]]_vars

\* C9: an init that finds a recorded horizon more than the timeout behind
\* the current time, by the code's measure (now - horizon) / 1000 >
\* timeout, clears every stored key: get is then absent for every key.
C9_ExpirationWipes ==
  [][\A o1, o2 \in Outcomes :
       (/\ hasLocalStorage
        /\ Load(o1, o2)
        /\ "_cacheTimeout" \in DOMAIN localStorage
        /\ (clock - Horizon(localStorage).n) > _cacheTimeout * 1000)
         => /\ ~last'.threw
            /\ localStorage' = Empty
            /\ \A k \in UserKeys :
                 ~x_get(M', k).threw /\ x_get(M', k).value = False]_vars

\* An init has run the expiration check, found the horizon expired and
\* reset the store.
C9_Witness ==
  /\ last.op = "load"
  /\ hasLocalStorage
  /\ last.resets = 1
  /\ last.writes = 0
  /\ localStorage = Empty
  /\ cache = "object"

\* C10: only init chooses the backend: no get, set or reset, the reset
\* inside set included, changes _storageType.
C10_BackendFixed ==
  [][last'.op # "load" => _storageType' = _storageType]_vars

\* A set that reset the cache on a quota failure has run under localStorage.
C10_Witness ==
  /\ last.op = "set"
  /\ last.resets = 1
  /\ _storageType = "localStorage"
  /\ hasLocalStorage

\* C11: when the text stored under a key is not a serialized wrapper, get
\* on that key returns false and does not throw.
C11_MalformedIsAbsent ==
  (/\ last.op = "get"
   /\ last.key \in DOMAIN ActiveStore(M)
   /\ ~IsJSON(ActiveStore(M)[last.key]))
    => (~last.threw /\ last.ret = False)

\* The expiration check of _checkExpiration would reset the store now.
Expired ==
  /\ _storageType # "js"
  /\ "_cacheTimeout" \in DOMAIN ActiveStore(M)
  /\ TimeoutMet(clock, JSONparse(ActiveStore(M)["_cacheTimeout"]).value)

\* C12: only init checks the expiration.  get leaves the store as it is and
\* returns the stored value however far the clock is past the horizon; a
\* set that meets no quota failure removes no entry; so an entry stays
\* readable after the horizon until the next init.
C12_ExpiryOnlyInInit ==
  [][/\ \A key \in UserKeys :
          (Get(key) /\ key \in DOMAIN ActiveStore(M)
                    /\ IsJSON(ActiveStore(M)[key]))
            => /\ ActiveStore(M') = ActiveStore(M)
               /\ ~last'.threw
               /\ last'.ret = JSONparse(ActiveStore(M)[key]).value
     /\ \A key \in UserKeys, value \in Values, o \in SetOutcomes :
          (Set(key, value, o[1], o[2]) /\ o[1] # QuotaExceeded)
            => DOMAIN ActiveStore(M) \subseteq DOMAIN ActiveStore(M')
     /\ (last'.op \in {"get", "set", "foreign"} /\ last'.resets = 0)
            => DOMAIN ActiveStore(M) \subseteq DOMAIN ActiveStore(M')]_vars

\* A get has returned a stored value while the horizon lies more than the
\* timeout behind the clock.
C12_Witness ==
  /\ last.op = "get"
  /\ ~last.threw
  /\ last.ret = Str("a")
  /\ Expired
  /\ last.key \in DOMAIN localStorage

\* C13: with the horizon recorded by an init at time T0, a later init at
\* time T wipes the store when more than timeout seconds lie between T0 and
\* T, and leaves it as it is when less do.
C13_ExpiryThreshold ==
  [][\A o1, o2 \in Outcomes :
       (/\ hasLocalStorage
        /\ Load(o1, o2)
        /\ "_cacheTimeout" \in DOMAIN localStorage)
         => LET T0 == Horizon(localStorage).n - _cacheTimeout
                elapsed == clock - T0
            IN  /\ elapsed > _cacheTimeout * 1000 => localStorage' = Empty
                /\ elapsed < _cacheTimeout * 1000
                     => localStorage' = localStorage]_vars

\* C14: every operation that resets the cache (an init that finds the
\* store expired, reset(), a set that meets a quota failure) ends with no
\* reserved key in the store, the wiping init with no entry at all; no get,
\* set or reset creates a reserved key; an init that records a horizon
\* records now + timeout and wipes nothing.
C14_ReservedKeysRegenerated ==
  [][/\ last'.resets > 0
          => DOMAIN ActiveStore(M') \cap ReservedKeys = {}
     /\ (last'.op = "load" /\ last'.resets > 0)
          => (localStorage' = Empty /\ ~last'.threw)
     /\ last'.op # "load"
          => (DOMAIN ActiveStore(M') \cap ReservedKeys)
               \subseteq DOMAIN ActiveStore(M)
     /\ ("_cacheTimeout" \in DOMAIN localStorage'
           /\ "_cacheTimeout" \notin DOMAIN localStorage)
          => /\ last'.op = "load"
             /\ last'.resets = 0
             /\ Horizon(localStorage').n = clock + _cacheTimeout]_vars

\* The init that follows an operation that reset the cache has recorded a
\* new horizon.
C14_Witness ==
  /\ last.op = "load"
  /\ last.afterReset
  /\ last.resets = 0
  /\ last.writes = 2
  /\ "_cacheTimeout" \in DOMAIN localStorage
  /\ Horizon(localStorage).n = clock + _cacheTimeout

\* C15: on the in-memory backend every init leaves a new empty array, so
\* that get is absent for every key whatever was set before; on
\* localStorage an init whose expiration check does not wipe leaves every
\* entry stored under an application key as it was.
C15_InitAndEntries ==
  [][\A o1, o2 \in Outcomes :
       Load(o1, o2)
         => /\ ~hasLocalStorage
                 => /\ _storage' = StorageNew
                    /\ \A k \in UserKeys :
                         ~x_get(M', k).threw /\ x_get(M', k).value = False
            /\ (hasLocalStorage /\ last'.resets = 0)
                 => \A k \in DOMAIN localStorage \cap UserKeys :
                      /\ k \in DOMAIN localStorage'
                      /\ localStorage'[k] = localStorage[k]]_vars

\* C16: when localStorage rejects the write of _cacheTimeout made by the
\* expiration check of a page load with the quota code and accepts the
\* write that follows, the load clears the store, writes again, returns
\* normally with `cache` bound, and leaves now + timeout recorded.
C16_InitQuotaRecovery ==
  [][(/\ hasLocalStorage
      /\ "_cacheTimeout" \notin DOMAIN localStorage
      /\ Load(QuotaExceeded, NoThrow))
       => /\ ~last'.threw
          /\ cache' = "object"
          /\ last'.resets = 1
          /\ "_cacheTimeout" \in DOMAIN localStorage'
          /\ localStorage'["_cacheTimeout"] = Wrapper(Num(clock + _cacheTimeout))]_vars

\* C17: a get changes neither store, nor the array, nor the storage type,
\* whether it returns or throws; a set(k, v) whose first write the store
\* accepts leaves the storage type alone, puts the wrapper of v under k and
\* leaves every other key, the reserved ones included, with the entry (or
\* the absence of an entry) it had.
C17_Frame ==
  [][/\ \A key \in UserKeys :
          Get(key) => /\ localStorage' = localStorage
                      /\ sessionStorage' = sessionStorage
                      /\ _storage' = _storage
                      /\ _storageType' = _storageType
     /\ \A key \in UserKeys, value \in Values :
          Set(key, value, NoThrow, NoThrow)
            => /\ _storageType' = _storageType
               /\ sessionStorage' = sessionStorage
               /\ _storage'.alloc = _storage.alloc
               /\ key \in DOMAIN ActiveStore(M')
               /\ ActiveStore(M')[key] = Wrapper(value)
               /\ \A k \in Keys \ {key} :
                    /\ k \in DOMAIN ActiveStore(M') <=> k \in DOMAIN ActiveStore(M)
                    /\ k \in DOMAIN ActiveStore(M)
                         => ActiveStore(M')[k] = ActiveStore(M)[k]]_vars

\* A set whose only write was accepted, made on a localStorage that holds
\* both reserved keys.
C17_Witness ==
  /\ last.op = "set"
  /\ last.first = NoThrow
  /\ ~last.threw
  /\ last.writes = 1
  /\ last.resets = 0
  /\ DOMAIN localStorage = ReservedKeys \cup {last.key}
  /\ Horizon(localStorage) = Num(_cacheTimeout)

C19_FalseMeansAbsent ==
  (last.op = "get" /\ ~last.threw /\ last.ret = False)
    => last.key \notin DOMAIN ActiveStore(M)

\* C19, amended: a get that returns false was made for a key that has no
\* entry in the active store or whose entry is the wrapper of the boolean
\* false.
C19_FalseMeansAbsentOrFalse ==
  (last.op = "get" /\ ~last.threw /\ last.ret = False)
    => \/ last.key \notin DOMAIN ActiveStore(M)
       \/ ActiveStore(M)[last.key] = Wrapper(False)

\* A get returned false for a key that holds an entry.
C19_Witness ==
  /\ last.op = "get"
  /\ ~last.threw
  /\ last.ret = False
  /\ last.key \in DOMAIN ActiveStore(M)
====
